---- MODULE Spec2Model ----
(***************************************************************************)
(* CompareBLASTs (src/main.py): reconciliation of the hits of an old and a *)
(* new BLAST search of one query, and the driver perform_comparison.       *)
(*                                                                         *)
(* A hit is a record [ids, attr]: ids is the ordered list of (db, num)     *)
(* identifiers of BlastHit.ids, attr stands for the alignment columns that *)
(* BlastHit.compare_hit compares.  A hit object is identified by its       *)
(* position in the input list it came from, so the buckets of old_hits and *)
(* new_hits are sequences of positions and hit.status is a function of the *)
(* position.                                                               *)
(***************************************************************************)
EXTENDS Integers, Sequences, FiniteSets, TLC

VARIABLES input_old_hits, input_new_hits, directory, old_hits, new_hits,
          status_old, status_new, oldGeneIDs, newGeneIDs, oldOnly_replaced,
          num, date_oldsearch, hits_per_category, top, lookups, pc,
          old_Blast, new_Blast, old_keys, new_keys, todo, compared,
          lookups_issued, tallies, save_output, output_open, pc_main

cmp_vars == <<input_old_hits, input_new_hits, directory, old_hits, new_hits,
              status_old, status_new, oldGeneIDs, newGeneIDs,
              oldOnly_replaced, num, date_oldsearch, hits_per_category, top,
              lookups, pc>>

main_vars == <<old_Blast, new_Blast, old_keys, new_keys, todo, compared,
               lookups_issued, tallies, save_output, output_open, pc_main>>

vars == <<cmp_vars, main_vars>>

(***************************************************************************)
(* Bounds of the model.                                                    *)
(***************************************************************************)
\* hit lines of the old and the new file together
MaxHits == 3
\* largest value of the option --top
MaxTop == 2

\* gi numbers, the accession of the other database, alignment payloads
GiNums == {1, 2}
RefNums == {7}
Attrs == {0, 1}
\* 'CreateDate' strings "2014/12/31" and "2015/01/01", as their fields
Dates == {[y |-> 2014, m |-> 12, d |-> 31], [y |-> 2015, m |-> 1, d |-> 1]}
QueryNames == {"Q1", "Q2"}

Min(S) == CHOOSE x \in S : \A y \in S : x <= y
Max(S) == CHOOSE x \in S : \A y \in S : y <= x
Range(s) == {s[i] : i \in DOMAIN s}
SeqsUpTo(S, n) == UNION {[1..k -> S] : k \in 0..n}
\* the sequence 1, 2, ..., n
UpTo(n) == [i \in 1..n |-> i]
\* list.pop(k): the list without its k-th element
Pop(s, k) == [i \in 1..(Len(s) - 1) |-> IF i < k THEN s[i] ELSE s[i + 1]]
\* number of positions of s that hold x
Occurrences(s, x) == Cardinality({i \in DOMAIN s : s[i] = x})

(***************************************************************************)
(* Hits and directory records.                                             *)
(***************************************************************************)
ID(db, n) == [db |-> db, num |-> n]
\* A hit has at most one gi identifier: load_blasthits splits a line that
\* lists several sequences into one hit per sequence.  The lists are: a gi
\* identifier alone, an identifier of another database alone, and the two
\* together with the gi identifier last.
IdLists == {<<ID("gi", n)>> : n \in GiNums}
           \cup {<<ID("ref", r)>> : r \in RefNums}
           \cup {<<ID("ref", r), ID("gi", Min(GiNums))>> : r \in RefNums}
Hits == [ids : IdLists, attr : Attrs]

StatusKeys == {"live", "replaced", "suppressed"}
\* the esummary records the directory can answer for gi number n
DirRecords(n) ==
    {[Status |-> "live", ReplacedBy |-> 0, CreateDate |-> d] : d \in Dates}
    \cup {[Status |-> "suppressed", ReplacedBy |-> 0, CreateDate |-> d] :
            d \in Dates}
    \cup {[Status |-> "replaced", ReplacedBy |-> r, CreateDate |-> d] :
            r \in GiNums \ {n}, d \in Dates}
AllDirRecords == UNION {DirRecords(n) : n \in GiNums}

GiPositions(hit) == {k \in 1..Len(hit.ids) : hit.ids[k].db = "gi"}
HasGi(hit) == GiPositions(hit) # {}
\* for ID in hit.ids: if ID.db == 'gi': ...; break
FirstGiNum(hit) == hit.ids[Min(GiPositions(hit))].num
\* for ID in hit.ids: if ID.db == 'gi': new_id = ...   (no break)
LastGiNum(hit) == hit.ids[Max(GiPositions(hit))].num
IdNums(hit) == {hit.ids[k].num : k \in 1..Len(hit.ids)}

\* strptime(s, '%Y/%m/%d'): the struct_time fields that order two dates
strptime(s) == <<s.y, s.m, s.d, 0, 0, 0>>
\* t1 < t2 on struct_time: tuple order
TimeLess(t1, t2) ==
    \E k \in 1..Len(t1) :
        /\ t1[k] < t2[k]
        /\ \A j \in 1..(k - 1) : t1[j] = t2[j]
\* max(list of struct_time)
MaxTime(S) == CHOOSE t \in S : \A u \in S : ~TimeLess(t, u)

(***************************************************************************)
(* blast_hit: BlastHit.compare_hit, compare_blasts and get_idlist.         *)
(***************************************************************************)
\* hit.compare_hit(other, check_ids)[0]: the alignment attributes agree
\* and, unless check_ids is False, so do the identifiers
compare_hit(hit, other, check_ids) ==
    /\ hit.attr = other.attr
    /\ check_ids => hit.ids = other.ids
\* same identity, drifted attributes
similar_hit(hit, other) == hit.ids = other.ids /\ hit.attr # other.attr

\* For every hit of hits2 from position i on, the position in hits1 of the
\* first hit not yet taken that is the same or similar (0: none).
RECURSIVE MatchFrom(_, _, _, _)
MatchFrom(hits1, hits2, i, taken) ==
    IF i > Len(hits2) THEN <<>>
    ELSE LET cand == {j \in (1..Len(hits1)) \ taken :
                         \/ compare_hit(hits2[i], hits1[j], TRUE)
                         \/ similar_hit(hits2[i], hits1[j])}
             j == IF cand = {} THEN 0 ELSE Min(cand)
         IN  <<j>> \o MatchFrom(hits1, hits2, i + 1,
                                IF j = 0 THEN taken ELSE taken \cup {j})

NoBuckets == [all |-> <<>>, same |-> <<>>, similar |-> <<>>, unknown |-> <<>>]

\* compare_blasts(hits1, hits2): the partition of the new hits (hits1) and
\* of the old hits (hits2) into same, similar and unknown, with the status
\* of the matched hits
compare_blasts(hits1, hits2) ==
    LET m == MatchFrom(hits1, hits2, 1, {})
        partner(j) == CHOOSE i \in 1..Len(hits2) : m[i] = j
        kind2(i) == IF m[i] = 0 THEN "unset"
                    ELSE IF compare_hit(hits2[i], hits1[m[i]], TRUE)
                         THEN "equal" ELSE "similar"
        kind1(j) == IF j \in Range(m) THEN kind2(partner(j)) ELSE "unset"
    IN  [new |-> [all |-> UpTo(Len(hits1)),
                  same |-> SelectSeq(UpTo(Len(hits1)),
                                     LAMBDA j : kind1(j) = "equal"),
                  similar |-> SelectSeq(UpTo(Len(hits1)),
                                        LAMBDA j : kind1(j) = "similar"),
                  unknown |-> SelectSeq(UpTo(Len(hits1)),
                                        LAMBDA j : kind1(j) = "unset")],
         old |-> [all |-> UpTo(Len(hits2)),
                  same |-> SelectSeq(UpTo(Len(hits2)),
                                     LAMBDA i : kind2(i) = "equal"),
                  similar |-> SelectSeq(UpTo(Len(hits2)),
                                        LAMBDA i : kind2(i) = "similar"),
                  unknown |-> SelectSeq(UpTo(Len(hits2)),
                                        LAMBDA i : kind2(i) = "unset")],
         status_new |-> [j \in 1..Len(hits1) |-> kind1(j)],
         status_old |-> [i \in 1..Len(hits2) |-> kind2(i)]]

\* the gi numbers get_idlist asks the directory for: the first gi
\* identifier of every hit that has one
RequestedNums(hits) == {FirstGiNum(h) : h \in {x \in Range(hits) : HasGi(x)}}
\* get_idlist(hits, email), dir being the directory's answers
get_idlist(hits, dir) == [n \in RequestedNums(hits) |-> dir[n]]
\* the directory's answers once the numbers in asked are looked up too:
\* an answer already given stays (the directory is a function of the number)
Answers(asked, fresh) ==
    [n \in (DOMAIN directory) \cup asked |->
        IF n \in DOMAIN directory THEN directory[n] ELSE fresh[n]]

(***************************************************************************)
(* CompareBLASTs.__init__ and compare.                                     *)
(***************************************************************************)
NoMainRun ==
    /\ old_Blast = <<>>
    /\ new_Blast = <<>>
    /\ old_keys = {}
    /\ new_keys = {}
    /\ todo = {}
    /\ compared = {}
    /\ lookups_issued = 0
    /\ tallies = {}
    /\ save_output = FALSE
    /\ output_open = FALSE
    /\ pc_main = "none"

\* The alignment payloads are only ever tested for equality, so the payload
\* of the first hit is fixed: the other choice is the same run with the
\* payloads renamed.
Init ==
    /\ input_old_hits \in SeqsUpTo(Hits, MaxHits)
    /\ input_new_hits \in SeqsUpTo(Hits, MaxHits - Len(input_old_hits))
    /\ (input_old_hits \o input_new_hits) # <<>> =>
          (input_old_hits \o input_new_hits)[1].attr = Min(Attrs)
    /\ directory = <<>>
    /\ old_hits = [NoBuckets EXCEPT !.all = UpTo(Len(input_old_hits))]
    /\ new_hits = [NoBuckets EXCEPT !.all = UpTo(Len(input_new_hits))]
    /\ status_old = [i \in 1..Len(input_old_hits) |-> "unset"]
    /\ status_new = [j \in 1..Len(input_new_hits) |-> "unset"]
    /\ oldGeneIDs = <<>>
    /\ newGeneIDs = <<>>
    /\ oldOnly_replaced = <<>>
    /\ num = 0
    /\ date_oldsearch = <<>>
    /\ hits_per_category = <<>>
    /\ top = 0
    /\ lookups = <<>>
    /\ pc = "start"
    /\ NoMainRun

\* the hit objects behind a bucket of positions
OldHit(i) == input_old_hits[i]
NewHit(j) == input_new_hits[j]
HitsOf(input, bucket) == [k \in 1..Len(bucket) |-> input[bucket[k]]]

\* lines 74-75
Match ==
    /\ pc = "start"
    /\ LET r == compare_blasts(input_new_hits, input_old_hits)
       IN  /\ new_hits' = r.new
           /\ old_hits' = r.old
           /\ status_new' = r.status_new
           /\ status_old' = r.status_old
    /\ pc' = "lookup_old"
    /\ UNCHANGED <<input_old_hits, input_new_hits, directory, oldGeneIDs,
                   newGeneIDs, oldOnly_replaced, num, date_oldsearch,
                   hits_per_category, top, lookups, main_vars>>

\* bug variant: only the unmatched old hits are looked up
LookupOldArg_unknown(oh) == oh.unknown
\* the hits of the old side handed to get_idlist (line 78)
LookupOldArg(oh) == oh.all

\* line 78
LookupOld ==
    /\ pc = "lookup_old"
    /\ LET arg == LookupOldArg(old_hits)
           asked == RequestedNums(HitsOf(input_old_hits, arg))
       IN  /\ \E fresh \in [asked \ DOMAIN directory -> AllDirRecords] :
                 /\ \A n \in DOMAIN fresh : fresh[n] \in DirRecords(n)
                 /\ directory' = Answers(asked, fresh)
           /\ oldGeneIDs' = get_idlist(HitsOf(input_old_hits, arg), directory')
           /\ lookups' = Append(lookups, [side |-> "old", hits |-> arg])
    /\ pc' = "classify_old"
    /\ UNCHANGED <<input_old_hits, input_new_hits, old_hits, new_hits,
                   status_old, status_new, newGeneIDs, oldOnly_replaced, num,
                   date_oldsearch, hits_per_category, top, main_vars>>

\* the directory status of an unmatched old hit (lines 88-91)
OldStatus(i) == oldGeneIDs[FirstGiNum(OldHit(i))]["Status"]
\* oldOnly[key] after the loop of lines 87-92
OldOnly(key) ==
    SelectSeq(old_hits.unknown,
              LAMBDA i : HasGi(OldHit(i)) /\ OldStatus(i) = key)

\* lines 83-97
ClassifyOld ==
    /\ pc = "classify_old"
    /\ status_old' = [i \in DOMAIN status_old |->
                        IF i \in Range(old_hits.unknown) /\ HasGi(OldHit(i))
                        THEN OldStatus(i) ELSE status_old[i]]
    /\ oldOnly_replaced' = OldOnly("replaced")
    /\ old_hits' = [all |-> old_hits.all, same |-> old_hits.same,
                    similar |-> old_hits.similar,
                    unknown |-> old_hits.unknown,
                    lost |-> OldOnly("live"),
                    suppressed |-> OldOnly("suppressed"),
                    replacement |-> <<>>]
    /\ new_hits' = [all |-> new_hits.all, same |-> new_hits.same,
                    similar |-> new_hits.similar,
                    unknown |-> new_hits.unknown,
                    replacement |-> <<>>]
    /\ num' = 1
    /\ pc' = "link"
    /\ UNCHANGED <<input_old_hits, input_new_hits, directory, status_new,
                   oldGeneIDs, newGeneIDs, date_oldsearch, hits_per_category,
                   top, lookups, main_vars>>

\* new_id of lines 102-104: the 'ReplacedBy' of the hit's gi identifier
NewId(i) == oldGeneIDs[LastGiNum(OldHit(i))]["ReplacedBy"]
\* the positions in new_hits['unknown'] on which lines 107-109 succeed for
\* the old hit i
Candidates(i) ==
    {k \in 1..Len(new_hits.unknown) :
        /\ NewId(i) \in IdNums(NewHit(new_hits.unknown[k]))
        /\ compare_hit(OldHit(i), NewHit(new_hits.unknown[k]), FALSE)}
\* bug variant: the linked hit stays in new_hits['unknown']
ConsumeRep_kept(unknown, k) == unknown
\* line 110: self.new_hits['unknown'].pop(num2)
ConsumeRep(unknown, k) == Pop(unknown, k)
\* bug variant: the old hit is not appended to old_hits['lost']
FallbackLost_dropped(lost, i) == lost
\* line 120: self.old_hits['lost'].append(oldOnly['replaced'][num])
FallbackLost(lost, i) == Append(lost, i)
\* bug variant: the status stays 'replaced'
FallbackStatus_kept(st, i) == st
\* line 121: oldOnly['replaced'][num].status = 'live'
FallbackStatus(st, i) == [st EXCEPT ![i] = "live"]

\* one round of the loop of lines 101-121
Link ==
    /\ pc = "link"
    /\ num <= Len(oldOnly_replaced)
    /\ LET i == oldOnly_replaced[num]
           cand == Candidates(i)
       IN  IF cand # {}
           THEN LET k == Min(cand)
                    rep == new_hits.unknown[k]
                IN  /\ new_hits' =
                           [new_hits EXCEPT
                              !.unknown = ConsumeRep(new_hits.unknown, k),
                              !.replacement = Append(@, rep)]
                    /\ status_new' = [status_new EXCEPT ![rep] = "replacement"]
                    /\ old_hits' = [old_hits EXCEPT
                                      !.replacement = Append(@, i)]
                    /\ UNCHANGED status_old
           ELSE /\ old_hits' = [old_hits EXCEPT !.lost = FallbackLost(@, i)]
                /\ status_old' = FallbackStatus(status_old, i)
                /\ UNCHANGED <<new_hits, status_new>>
    /\ num' = num + 1
    /\ UNCHANGED <<input_old_hits, input_new_hits, directory, oldGeneIDs,
                   newGeneIDs, oldOnly_replaced, date_oldsearch,
                   hits_per_category, top, lookups, pc, main_vars>>

\* line 125
LookupNew ==
    /\ pc = "link"
    /\ num > Len(oldOnly_replaced)
    /\ LET arg == new_hits.unknown
           asked == RequestedNums(HitsOf(input_new_hits, arg))
       IN  /\ \E fresh \in [asked \ DOMAIN directory -> AllDirRecords] :
                 /\ \A n \in DOMAIN fresh : fresh[n] \in DirRecords(n)
                 /\ directory' = Answers(asked, fresh)
           /\ newGeneIDs' = get_idlist(HitsOf(input_new_hits, arg), directory')
           /\ lookups' = Append(lookups, [side |-> "new", hits |-> arg])
    /\ pc' = "recency"
    /\ UNCHANGED <<input_old_hits, input_new_hits, old_hits, new_hits,
                   status_old, status_new, oldGeneIDs, oldOnly_replaced, num,
                   date_oldsearch, hits_per_category, top, main_vars>>

\* lines 130-131: max of the creation dates of self.oldGeneIDs.values()
Baseline(ids) == MaxTime({strptime(ids[n]["CreateDate"]) : n \in DOMAIN ids})
\* bug variant: <= in place of <
IsStrange_orEqual(created, baseline) ==
    ~TimeLess(baseline, strptime(created))
\* lines 139-140: strptime(created, '%Y/%m/%d') < date_oldsearch
IsStrange(created, baseline) == TimeLess(strptime(created), baseline)
\* bug variant: the loop goes through new_hits['all']
NewToClassify_all(nh) == nh.all
\* the hits the loop of line 138 goes through
NewToClassify(nh) == nh.unknown
\* line 139: self.newGeneIDs[hit.ids[0].num] raises KeyError
Unresolvable(j) == NewHit(j).ids[1].num \notin DOMAIN newGeneIDs

\* lines 130-145; max() of no date and the lookup of line 139 may raise
RecencyClassify ==
    /\ pc = "recency"
    /\ IF DOMAIN oldGeneIDs = {}
       THEN /\ pc' = "compare_raised"
            /\ UNCHANGED <<new_hits, status_new, date_oldsearch>>
       ELSE LET baseline == Baseline(oldGeneIDs)
                todo_new == NewToClassify(new_hits)
                bad == {k \in 1..Len(todo_new) : Unresolvable(todo_new[k])}
                upto == IF bad = {} THEN Len(todo_new) ELSE Min(bad) - 1
                done == SubSeq(todo_new, 1, upto)
                strange(j) == IsStrange(
                    newGeneIDs[NewHit(j).ids[1].num]["CreateDate"], baseline)
            IN  /\ date_oldsearch' = baseline
                /\ new_hits' =
                       [all |-> new_hits.all, same |-> new_hits.same,
                        similar |-> new_hits.similar,
                        unknown |-> new_hits.unknown,
                        replacement |-> new_hits.replacement,
                        new |-> SelectSeq(done, LAMBDA j : ~strange(j)),
                        old |-> SelectSeq(done, LAMBDA j : strange(j))]
                /\ status_new' =
                       [j \in DOMAIN status_new |->
                           IF j \in Range(done)
                           THEN (IF strange(j) THEN "strange" ELSE "new")
                           ELSE status_new[j]]
                /\ pc' = IF bad = {} THEN "done" ELSE "compare_raised"
    /\ UNCHANGED <<input_old_hits, input_new_hits, directory, old_hits,
                   status_old, oldGeneIDs, newGeneIDs, oldOnly_replaced, num,
                   hits_per_category, top, lookups, main_vars>>

(***************************************************************************)
(* CompareBLASTs.output_comparison: the tally of lines 164-179.            *)
(***************************************************************************)
Categories == {"equal", "similar", "live", "replaced", "suppressed", "new",
               "strange"}
\* bug variant: no case for top == 0
TopCount_noAll(t, n) == Min({t, n})
\* lines 168-173: top_old, top_new
TopCount(t, n) == IF t = 0 THEN n ELSE Min({t, n})
\* list[:n]
Prefix(s, n) == SubSeq(s, 1, n)

\* lines 164-179; hits_per_category[hit.status] raises KeyError for an old
\* hit whose status is no category
OutputComparison ==
    /\ pc = "done"
    /\ \E t \in 0..MaxTop :
         LET old_top == Prefix(old_hits.all,
                               TopCount(t, Len(old_hits.all)))
             new_top == Prefix(new_hits.all,
                               TopCount(t, Len(new_hits.all)))
         IN  /\ top' = t
             /\ IF \E k \in 1..Len(old_top) :
                       status_old[old_top[k]] \notin Categories
                THEN /\ pc' = "output_raised"
                     /\ UNCHANGED hits_per_category
                ELSE /\ pc' = "reported"
                     /\ hits_per_category' =
                          [c \in Categories |->
                             Cardinality({k \in 1..Len(old_top) :
                                            status_old[old_top[k]] = c})
                             + IF c \in {"new", "strange"}
                               THEN Cardinality({k \in 1..Len(new_top) :
                                            status_new[new_top[k]] = c})
                               ELSE 0]
    /\ UNCHANGED <<input_old_hits, input_new_hits, directory, old_hits,
                   new_hits, status_old, status_new, oldGeneIDs, newGeneIDs,
                   oldOnly_replaced, num, date_oldsearch, lookups, main_vars>>

Next ==
    \/ Match
    \/ LookupOld
    \/ ClassifyOld
    \/ Link
    \/ LookupNew
    \/ RecencyClassify
    \/ OutputComparison

Spec == Init /\ [][Next]_vars

(***************************************************************************)
(* perform_comparison.  old_Blast and new_Blast are the files as loaded:   *)
(* the query name of every hit, in file order.  A run of compare() and     *)
(* output_comparison() for one query is one step here: it issues its two   *)
(* directory lookups, and writes the query's tally unless it raises.       *)
(***************************************************************************)
NoComparison ==
    /\ input_old_hits = <<>>
    /\ input_new_hits = <<>>
    /\ directory = <<>>
    /\ old_hits = NoBuckets
    /\ new_hits = NoBuckets
    /\ status_old = <<>>
    /\ status_new = <<>>
    /\ oldGeneIDs = <<>>
    /\ newGeneIDs = <<>>
    /\ oldOnly_replaced = <<>>
    /\ num = 0
    /\ date_oldsearch = <<>>
    /\ hits_per_category = <<>>
    /\ top = 0
    /\ lookups = <<>>
    /\ pc = "none"

InitMain ==
    /\ old_Blast \in SeqsUpTo(QueryNames, MaxHits)
    /\ new_Blast \in SeqsUpTo(QueryNames, MaxHits - Len(old_Blast))
    /\ save_output \in BOOLEAN
    /\ old_keys = {}
    /\ new_keys = {}
    /\ todo = {}
    /\ compared = {}
    /\ lookups_issued = 0
    /\ tallies = {}
    /\ output_open = FALSE
    /\ pc_main = "loaded"
    /\ NoComparison

\* lines 297-307: the keys of the dictionaries new_hits and old_hits
GroupHits ==
    /\ pc_main = "loaded"
    /\ new_keys' = {new_Blast[k] : k \in 1..Len(new_Blast)}
    /\ old_keys' = {old_Blast[k] : k \in 1..Len(old_Blast)}
    /\ pc_main' = "grouped"
    /\ UNCHANGED <<old_Blast, new_Blast, todo, compared, lookups_issued,
                   tallies, save_output, output_open, cmp_vars>>

\* bug variant: only checks that the new file has every old query
KeysAgree_subset(ok, nk) == ok \subseteq nk
\* line 310: old_hits.keys() == new_hits.keys(), on the sets of keys
KeysAgree(ok, nk) == ok = nk

\* line 310
AssertSameQueries ==
    /\ pc_main = "grouped"
    /\ pc_main' = IF KeysAgree(old_keys, new_keys) THEN "checked"
                  ELSE "assert_failed"
    /\ UNCHANGED <<old_Blast, new_Blast, old_keys, new_keys, todo, compared,
                   lookups_issued, tallies, save_output, output_open,
                   cmp_vars>>

\* lines 314-319, and the start of the loop of line 323
OpenOutput ==
    /\ pc_main = "checked"
    /\ output_open' = save_output
    /\ todo' = old_keys
    /\ pc_main' = "loop"
    /\ UNCHANGED <<old_Blast, new_Blast, old_keys, new_keys, compared,
                   lookups_issued, tallies, save_output, cmp_vars>>

\* lines 323-333 for one key; new_hits[key] raises KeyError for a key the
\* new file lacks, compare() raises after its lookups, output_comparison()
\* raises before it writes
CompareQuery ==
    /\ pc_main = "loop"
    /\ \E key \in todo :
         IF key \notin new_keys
         THEN /\ pc_main' = "raised"
              /\ UNCHANGED <<todo, compared, lookups_issued, tallies>>
         ELSE /\ compared' = compared \cup {key}
              /\ lookups_issued' = lookups_issued + 2
              /\ \E raises \in BOOLEAN :
                    IF raises
                    THEN /\ pc_main' = "raised"
                         /\ UNCHANGED <<todo, tallies>>
                    ELSE /\ tallies' = tallies \cup {key}
                         /\ todo' = todo \ {key}
                         /\ UNCHANGED pc_main
    /\ UNCHANGED <<old_Blast, new_Blast, old_keys, new_keys, save_output,
                   output_open, cmp_vars>>

\* lines 335-336
CloseOutput ==
    /\ pc_main = "loop"
    /\ todo = {}
    /\ output_open' = FALSE
    /\ pc_main' = "finished"
    /\ UNCHANGED <<old_Blast, new_Blast, old_keys, new_keys, todo, compared,
                   lookups_issued, tallies, save_output, cmp_vars>>

NextMain ==
    \/ GroupHits
    \/ AssertSameQueries
    \/ OpenOutput
    \/ CompareQuery
    \/ CloseOutput

SpecMain == InitMain /\ [][NextMain]_vars

(***************************************************************************)
(* Properties.                                                             *)
(***************************************************************************)
\* compare() has returned
Completed == pc \in {"done", "reported", "output_raised"}
\* the buckets of lines 94-97 exist
Linked == pc \in {"link", "recency", "done", "reported", "compare_raised",
                  "output_raised"}
Raised == pc \in {"compare_raised", "output_raised"}
\* the directory's record of a hit that has a gi identifier
DirOf(hit) == directory[FirstGiNum(hit)]
\* date a is earlier than date b ('YYYY/MM/DD')
DateBefore(a, b) ==
    \/ a.y < b.y
    \/ a.y = b.y /\ a.m < b.m
    \/ a.y = b.y /\ a.m = b.m /\ a.d < b.d
\* old hits that have a gi identifier
ResolvedOld == {i \in 1..Len(input_old_hits) : HasGi(OldHit(i))}

OldTerminal(i) ==
    Occurrences(old_hits.same, i) + Occurrences(old_hits.similar, i)
    + Occurrences(old_hits.lost, i) + Occurrences(old_hits.replacement, i)
    + Occurrences(old_hits.suppressed, i)
NewTerminal(j) ==
    Occurrences(new_hits.same, j) + Occurrences(new_hits.similar, j)
    + Occurrences(new_hits.replacement, j) + Occurrences(new_hits.new, j)
    + Occurrences(new_hits.old, j)

\* C1: once compare() has returned, every hit of old_hits['all'] is in
\* exactly one of same, similar, lost, replacement, suppressed, every hit of
\* new_hits['all'] is in exactly one of same, similar, replacement, new,
\* old, and on each side the bucket sizes add up to the size of 'all'.
C1_PartitionComplete ==
    Completed =>
        /\ \A i \in Range(old_hits.all) : OldTerminal(i) = 1
        /\ \A j \in Range(new_hits.all) : NewTerminal(j) = 1
        /\ Len(old_hits.all) =
              Len(old_hits.same) + Len(old_hits.similar) + Len(old_hits.lost)
              + Len(old_hits.replacement) + Len(old_hits.suppressed)
        /\ Len(new_hits.all) =
              Len(new_hits.same) + Len(new_hits.similar)
              + Len(new_hits.replacement) + Len(new_hits["new"])
              + Len(new_hits.old)

\* no hit of new_hits['unknown'] carries the replacement identifier of the
\* old hit i and passes the identifier-agnostic comparison
Stale(i) ==
    \A k \in 1..Len(new_hits.unknown) :
        \/ DirOf(OldHit(i)).ReplacedBy \notin IdNums(NewHit(new_hits.unknown[k]))
        \/ ~compare_hit(OldHit(i), NewHit(new_hits.unknown[k]), FALSE)
\* the old hits the linker has dealt with
Handled == {oldOnly_replaced[k] : k \in 1..Min({num - 1, Len(oldOnly_replaced)})}

\* C2: the linker's round for a 'replaced' old hit whose replacement
\* identifier is carried by no hit of new_hits['unknown'], or only by hits
\* that fail compare_hit(check_ids=False), gives it the status 'live' and
\* appends it to old_hits['lost'] without raising; and every old hit the
\* linker has dealt with and not linked stays 'live' and in 'lost'.
C2_StaleReplacementIsLost ==
    /\ [](Linked =>
            \A i \in Handled :
                i \notin Range(old_hits.replacement) =>
                    /\ status_old[i] = "live"
                    /\ Occurrences(old_hits.lost, i) = 1)
    /\ [][(/\ pc = "link"
           /\ num <= Len(oldOnly_replaced)
           /\ Stale(oldOnly_replaced[num]))
          => (/\ status_old'[oldOnly_replaced[num]] = "live"
              /\ oldOnly_replaced[num] \in Range(old_hits'.lost)
              /\ oldOnly_replaced[num] \notin Range(old_hits'.replacement)
              /\ pc' = "link")]_vars

\* a 'replaced' old hit whose replacement no new hit carries was made
\* 'live' and is in old_hits['lost']
C2_Witness ==
    /\ Linked
    /\ \E i \in Handled :
          /\ DirOf(OldHit(i)).Status = "replaced"
          /\ \A j \in 1..Len(input_new_hits) :
                DirOf(OldHit(i)).ReplacedBy \notin IdNums(NewHit(j))
          /\ status_old[i] = "live"
          /\ i \in Range(old_hits.lost)

\* C3: the replacement buckets pair up position by position: the new hit
\* carries the replacement identifier the directory gives for the old hit
\* and passes compare_hit(check_ids=False), it has left new_hits['unknown']
\* and is tagged 'replacement', and no new hit is linked twice.
C3_ReplacementPairs ==
    Linked =>
        /\ Len(old_hits.replacement) = Len(new_hits.replacement)
        /\ \A k \in 1..Len(new_hits.replacement) :
              LET i == old_hits.replacement[k]
                  j == new_hits.replacement[k]
              IN  /\ DirOf(OldHit(i)).Status = "replaced"
                  /\ DirOf(OldHit(i)).ReplacedBy \in IdNums(NewHit(j))
                  /\ compare_hit(OldHit(i), NewHit(j), FALSE)
                  /\ j \notin Range(new_hits.unknown)
                  /\ status_new[j] = "replacement"
                  /\ Occurrences(new_hits.replacement, j) = 1
                  /\ Occurrences(old_hits.replacement, i) = 1

\* two old hits were replaced by the same identifier; the first took the
\* only new hit that carries it, the second fell back to 'lost'
C3_Witness ==
    /\ Linked
    /\ Len(new_hits.replacement) = 1
    /\ \E i \in Range(old_hits.lost) :
          /\ i \in Range(oldOnly_replaced)
          /\ i > old_hits.replacement[1]
          /\ DirOf(OldHit(i)).ReplacedBy
                \in IdNums(NewHit(new_hits.replacement[1]))
          /\ OldHit(i).attr = NewHit(new_hits.replacement[1]).attr

\* the latest creation date among the directory records of the old side
IsBaseline(d) ==
    /\ \E i \in ResolvedOld : DirOf(OldHit(i)).CreateDate = d
    /\ \A i \in ResolvedOld : ~DateBefore(d, DirOf(OldHit(i)).CreateDate)

\* C4: once compare() has returned, every hit left in new_hits['unknown']
\* is 'strange' and in new_hits['old'] if its own creation date is strictly
\* earlier than the latest creation date of the old side's directory
\* records, and 'new' and in new_hits['new'] otherwise.
C4_RecencyBoundary ==
    Completed =>
        \A j \in Range(new_hits.unknown) :
            \A d \in Dates :
                IsBaseline(d) =>
                    IF DateBefore(DirOf(NewHit(j)).CreateDate, d)
                    THEN /\ status_new[j] = "strange"
                         /\ j \in Range(new_hits.old)
                         /\ j \notin Range(new_hits["new"])
                    ELSE /\ status_new[j] = "new"
                         /\ j \in Range(new_hits["new"])
                         /\ j \notin Range(new_hits.old)

\* an unmatched new hit created on the baseline date itself is 'new'
C4_Witness ==
    /\ pc = "done"
    /\ \E j \in Range(new_hits.unknown) :
          /\ IsBaseline(DirOf(NewHit(j)).CreateDate)
          /\ status_new[j] = "new"
          /\ \E d \in Dates : DateBefore(d, DirOf(NewHit(j)).CreateDate)

\* the number of hits output_comparison(top) considers out of n
Considered(n) == IF top = 0 \/ top > n THEN n ELSE top
CountOld(c) == Cardinality({k \in 1..Considered(Len(input_old_hits)) :
                              status_old[k] = c})
CountNew(c) == Cardinality({k \in 1..Considered(Len(input_new_hits)) :
                              status_new[k] = c})

\* C5: the tally of output_comparison(top) has all seven categories; the
\* counts of equal, similar, live, replaced and suppressed are those of the
\* first min(top, |all|) old hits (all of them for top = 0), the counts of
\* new and strange those of the first min(top, |all|) new hits.
C5_TopTally ==
    pc = "reported" =>
        /\ DOMAIN hits_per_category = Categories
        /\ \A c \in {"equal", "similar", "live", "replaced", "suppressed"} :
              hits_per_category[c] = CountOld(c)
        /\ \A c \in {"new", "strange"} : hits_per_category[c] = CountNew(c)

\* a tally cut to fewer hits than the old side has, with an empty category
C5_Witness ==
    /\ pc = "reported"
    /\ top > 0
    /\ top < Len(input_old_hits)
    /\ \E c \in Categories : hits_per_category[c] = 0
    /\ \E c \in Categories :
          /\ hits_per_category[c] > 0
          /\ status_old[Len(input_old_hits)] = c
          /\ hits_per_category[c] <
                Cardinality({i \in DOMAIN status_old : status_old[i] = c})

\* C6 as stated: a status that has been assigned is never assigned again.
C6_StatusAssignedOnce ==
    [][/\ \A i \in DOMAIN status_old :
             status_old[i] # "unset" => status_old'[i] = status_old[i]
       /\ \A j \in DOMAIN status_new :
             status_new[j] # "unset" => status_new'[j] = status_new[j]]_vars

\* C6, amended: the only status ever overwritten is 'replaced', which the
\* linker turns into 'live' when it confirms no replacement; every other
\* status of an old hit, and every status of a new hit, is final.
C6_OnlyReplacedIsRetagged ==
    [][/\ \A i \in DOMAIN status_old :
             (status_old[i] # "unset" /\ status_old'[i] # status_old[i]) =>
                 /\ status_old[i] = "replaced"
                 /\ status_old'[i] = "live"
                 /\ pc = "link"
                 /\ i = oldOnly_replaced[num]
       /\ \A j \in DOMAIN status_new :
             status_new[j] # "unset" => status_new'[j] = status_new[j]]_vars

\* compare() has returned with an old hit that the directory calls
\* 'replaced', that was tagged so, and that is tagged 'live' now
C6_Witness ==
    /\ pc = "done"
    /\ \E i \in Range(oldOnly_replaced) :
          /\ DirOf(OldHit(i)).Status = "replaced"
          /\ status_old[i] = "live"

\* an unmatched hit without a gi identifier
UnmatchedWithoutGi ==
    /\ pc \notin {"start", "none"}
    /\ \/ \E i \in Range(old_hits.unknown) : ~HasGi(OldHit(i))
       \/ \E j \in Range(new_hits.unknown) : ~HasGi(NewHit(j))

\* C7: with an unmatched hit that has no gi identifier (and an old hit the
\* directory resolved, so that the baseline date exists), neither compare()
\* nor output_comparison() raises.
C7_MissingGiDoesNotAbort ==
    (UnmatchedWithoutGi /\ ResolvedOld # {}) => ~Raised

\* C9 as stated: the first lookup is over the unmatched old hits.
C9_FirstLookupOverUnmatched ==
    Len(lookups) >= 1 =>
        lookups[1] = [side |-> "old", hits |-> old_hits.unknown]

\* C9, amended: compare() looks up twice: first, after matching and before
\* it classifies any old hit, all hits of the old side (old_hits['all'],
\* matched ones included); then, after replacement linking and before
\* recency classification, the hits left in new_hits['unknown'].
C9_LookupOrder ==
    /\ pc \in {"start", "lookup_old"} => lookups = <<>>
    /\ pc = "lookup_old" =>
          \A i \in Range(old_hits.unknown) : status_old[i] = "unset"
    /\ pc \in {"classify_old", "link"} =>
          lookups = <<[side |-> "old", hits |-> UpTo(Len(input_old_hits))]>>
    /\ pc \in {"recency", "done", "reported", "compare_raised",
               "output_raised"} =>
          /\ lookups = <<[side |-> "old", hits |-> UpTo(Len(input_old_hits))],
                         [side |-> "new", hits |-> new_hits.unknown]>>
          /\ num > Len(oldOnly_replaced)
          /\ \A j \in Range(new_hits.replacement) :
                j \notin Range(lookups[2].hits)
    /\ pc = "recency" =>
          \A j \in Range(new_hits.unknown) : status_new[j] = "unset"

\* both lookups were issued, the first included a matched old hit, the
\* second left out a new hit that was no longer unmatched
C9_Witness ==
    /\ pc = "done"
    /\ Len(lookups) = 2
    /\ \E i \in Range(lookups[1].hits) : i \notin Range(old_hits.unknown)
    /\ Len(lookups[2].hits) < Len(input_new_hits)

\* every unmatched hit has a gi identifier (which the directory knows)
AllResolvable ==
    /\ \A i \in Range(old_hits.unknown) : HasGi(OldHit(i))
    /\ \A j \in Range(new_hits.unknown) : HasGi(NewHit(j))

\* C10: once compare() has returned on inputs whose unmatched hits all have
\* a gi identifier, an old hit is 'live' iff it is in old_hits['lost'],
\* 'replaced' iff in old_hits['replacement'], 'suppressed' iff in
\* old_hits['suppressed'], a new hit is 'new' iff in new_hits['new'] and
\* 'strange' iff in new_hits['old']; and the tally for top = 0 gives for
\* each of the five categories the size of its bucket.
C10_StatusMatchesBucket ==
    (Completed /\ AllResolvable) =>
        /\ \A i \in DOMAIN status_old :
              /\ status_old[i] = "live" <=> i \in Range(old_hits.lost)
              /\ status_old[i] = "replaced"
                    <=> i \in Range(old_hits.replacement)
              /\ status_old[i] = "suppressed"
                    <=> i \in Range(old_hits.suppressed)
        /\ \A j \in DOMAIN status_new :
              /\ status_new[j] = "new" <=> j \in Range(new_hits["new"])
              /\ status_new[j] = "strange" <=> j \in Range(new_hits.old)
        /\ (pc = "reported" /\ top = 0) =>
              /\ hits_per_category["live"] = Len(old_hits.lost)
              /\ hits_per_category["replaced"] = Len(old_hits.replacement)
              /\ hits_per_category["suppressed"] = Len(old_hits.suppressed)
              /\ hits_per_category["new"] = Len(new_hits["new"])
              /\ hits_per_category["strange"] = Len(new_hits.old)

\* a full tally with a linked old hit, an old hit that fell back to 'lost'
\* and a classified new hit
C10_Witness ==
    /\ pc = "reported"
    /\ top = 0
    /\ AllResolvable
    /\ \E i \in Range(oldOnly_replaced) : i \in Range(old_hits.lost)
    /\ Len(new_hits["new"]) + Len(new_hits.old) > 0

\* C8: when the query names of the two files differ, the run stops at the
\* assertion: no query is compared, no lookup is issued, no tally is
\* written and the loop over the queries is never entered.
C8_MismatchedQueriesAbort ==
    Range(old_Blast) # Range(new_Blast) =>
        /\ compared = {}
        /\ lookups_issued = 0
        /\ tallies = {}
        /\ ~output_open
        /\ pc_main \in {"loaded", "grouped", "assert_failed"}

\* the assertion failed on files that share a query
C8_Witness ==
    /\ pc_main = "assert_failed"
    /\ Range(old_Blast) \cap Range(new_Blast) # {}
    /\ Range(old_Blast) # Range(new_Blast)

====
